---- MODULE Spec2Model ----
(***************************************************************************)
(* Model of the command line sync driver, src/src/cmd/cmd.cpp: main() with *)
(* its credential resolution, proxy setup, exclude-list loading, selective *)
(* sync fixup and the goto-based restart loop around the sync engine.      *)
(*                                                                         *)
(* Strings whose contents the code inspects (the proxy option, the lines   *)
(* of the unsynced-folders file) are sequences of tokens; strings the code *)
(* only tests for emptiness (user names, passwords, file names) are TLA+   *)
(* strings, "" being the empty QString.                                    *)
(***************************************************************************)
EXTENDS Integers, Sequences, FiniteSets, TLC

VARIABLES
    pc,                       \* position of main()
    exitCode,                 \* process exit code, NoExit while running
    options,                  \* CmdOptions after parseOptions
    url,                      \* userName/password embedded in the target URL
    systemExcludeListFn,      \* ConfigFile::excludeFileFromSystem()
    netrc,                    \* what NetrcParser finds for url.host()
    user, password,           \* locals of main (lines 321-322)
    typedUser, typedPassword, \* lines read from stdin by the two prompts
    promptedUser, promptedPassword, \* whether main issued the prompt
    stdinReads,               \* number of blocking reads of standard input
    terminal,                 \* the terminal behind STDIN_FILENO and its c_lflag
    termBefore,               \* terminal when the latest queryPassword was entered
    termDuringRead,           \* terminal while that call was blocked in std::getline
    queryCalls,               \* calls of queryPassword
    cred,                     \* the HttpCredentialsText handed to the account
    restartCount,             \* line 385
    ctxAlive,                 \* a CSYNC context exists (created, not destroyed)
    ctxExcludes,              \* exclude lists loaded into the current context
    useSystemConfiguration,   \* QNetworkProxyFactory system configuration flag
    applicationProxy,         \* QNetworkProxy application proxy
    ambientSetups,            \* calls of clientProxy.setupQtProxyFromConfig()
    loadedSystemExcludeList,  \* line 429: return code of csync_add_exclude_list
    loadedUserExcludeList,    \* line 434
    selectiveSyncList,        \* line 439
    unsyncedFileOpened,       \* line 442: f.open() of this pass succeeded
    unsyncedLines,            \* line 446: the lines read from the file, until the engine is built
    journal,                  \* the on-disk sync journal
    invalidated,              \* paths given to avoidReadFromDbOnNextSync by the latest fixup
    fixupCalls,               \* calls of selectiveSyncFixup
    fixupOld,                 \* the journal as the latest selectiveSyncFixup call found it
    fixupArgs,                \* the lists given to the latest two calls, the latest last
    journalOpens,             \* SyncJournalDb objects constructed
    engine,                   \* state of the current SyncEngine
    anotherSyncNeeded,        \* engine.isAnotherSyncNeeded()
    engineSuccess,            \* argument of the engine's finished(bool) signal
    allNeeded,                \* every finished pass reported another sync needed
    passes,                   \* engine passes started (startSync executed)
    asks                      \* askFromUser calls of the engine in this pass

vars == <<pc, exitCode, options, url, systemExcludeListFn, netrc, user, password,
          typedUser, typedPassword, promptedUser, promptedPassword, stdinReads,
          terminal, termBefore, termDuringRead, queryCalls, unsyncedFileOpened,
          unsyncedLines, cred, restartCount, ctxAlive, ctxExcludes, useSystemConfiguration, applicationProxy,
          ambientSetups, loadedSystemExcludeList, loadedUserExcludeList,
          selectiveSyncList, journal, invalidated, fixupCalls, fixupOld, fixupArgs,
          journalOpens, engine, anotherSyncNeeded, engineSuccess, allNeeded, passes,
          asks>>

----------------------------------------------------------------------------
(* Bounds of the model *)

\* largest value given to --max-sync-retries
MaxRestartTimes == 2
\* most lines in the file given to --unsyncedfolders
MaxFileLines == 2
\* most askFromUser calls the engine makes in one pass
MaxAsks == 1
\* most consecutive selectiveSyncFixup calls of the fixup specification
MaxFixupCalls == 2

NoExit == -1
EXIT_FAILURE == 1

----------------------------------------------------------------------------
(* Strings *)

Range(s) == {s[i] : i \in 1..Len(s)}

SeqsUpTo(S, n) == UNION {[1..k -> S] : k \in 0..n}

\* QString::split(sep): the pieces between the separators, empty pieces kept
RECURSIVE Split(_, _)
Split(s, sep) ==
    IF \A i \in 1..Len(s) : s[i] # sep
    THEN <<s>>
    ELSE LET k == CHOOSE i \in 1..Len(s) :
                      s[i] = sep /\ \A j \in 1..(i-1) : s[j] # sep
         IN <<SubSeq(s, 1, k-1)>> \o Split(SubSeq(s, k+1, Len(s)), sep)

WhiteSpace == {" "}

\* QRegExp("\\S+") matches a line that holds a non-whitespace character
HasNonSpace(line) == \E i \in 1..Len(line) : line[i] \notin WhiteSpace

\* QRegExp("^[^#]") matches a line whose first character exists and is not '#'
NotComment(line) == Len(line) > 0 /\ line[1] # "#"

EndsWithSlash(line) == Len(line) > 0 /\ line[Len(line)] = "/"

\* lines 446-452 without the filter(QRegExp("^[^#]")) of line 446
ParseSelectiveSyncList_KeepComments(lines) ==
    LET kept == SelectSeq(lines, HasNonSpace)
    IN [i \in 1..Len(kept) |->
            IF EndsWithSlash(kept[i]) THEN kept[i] ELSE Append(kept[i], "/")]

\* lines 446-452: the list read from the unsynced-folders file
ParseSelectiveSyncList(lines) ==
    LET kept == SelectSeq(SelectSeq(lines, HasNonSpace), NotComment)
    IN [i \in 1..Len(kept) |->
            IF EndsWithSlash(kept[i]) THEN kept[i] ELSE Append(kept[i], "/")]

----------------------------------------------------------------------------
(* Inputs *)

PathA == <<"/", "a", "/">>
PathB == <<"/", "b", "/">>
PathC == <<"/", "c", "/">>
Paths == {PathA, PathB, PathC}

\* lines a file given to --unsyncedfolders may hold
FileLines == {PathA, <<"/", "b">>, <<" ">>, <<"#", "/", "a">>}
Files == SeqsUpTo(FileLines, MaxFileLines)

\* values of --httpproxy; a null QString when the option is absent
NullProxy == [isNull |-> TRUE, str |-> <<>>]
ProxyOptions ==
    {NullProxy} \cup
    {[isNull |-> FALSE, str |-> p] :
        p \in {<<"http", ":", "//", "host", ":", "8080">>,
               <<"host", ":", "8080">>,
               <<"host">>,
               <<"http", ":", "//", "host", ":", "8080", ":", "x">>}}

NoProxy == [kind |-> "none", host |-> <<>>, port |-> 0]

NetrcUnparsed == [parses |-> FALSE, found |-> FALSE, login |-> "", password |-> ""]
NetrcStates ==
    {NetrcUnparsed,
     [parses |-> TRUE, found |-> FALSE, login |-> "", password |-> ""],
     [parses |-> TRUE, found |-> TRUE, login |-> "netrcUser", password |-> "netrcPass"],
     [parses |-> TRUE, found |-> TRUE, login |-> "netrcUser", password |-> ""]}

StdinLines == {"", "typed"}

\* bits of termios.c_lflag
LFlags == {"ECHO", "ICANON", "ISIG"}

\* what STDIN_FILENO refers to: tcgetattr succeeds on a terminal, tcsetattr on a
\* terminal whose attributes can be set
Terminals == [isTty : BOOLEAN, settable : BOOLEAN, lflag : SUBSET LFlags]

ForegroundTerminal == [isTty |-> TRUE, settable |-> TRUE, lflag |-> LFlags]

\* value of the terminal history variables before the first queryPassword call
NoTerminal == [isTty |-> FALSE, settable |-> FALSE, lflag |-> {}]

NoJournal == [exists |-> FALSE, openable |-> TRUE, blacklist |-> <<>>]
Journals ==
    {NoJournal} \cup
    {[exists |-> TRUE, openable |-> o, blacklist |-> b] :
        o \in BOOLEAN, b \in {<<>>, <<PathA>>, <<PathB, PathA>>}}

NoCred == [created |-> FALSE, user |-> "", password |-> "", ready |-> FALSE]

OptionSets ==
    [user : {"", "optUser"}, password : {"", "optPass"}, useNetrc : BOOLEAN,
     interactive : BOOLEAN, proxy : ProxyOptions, exclude : {"", "user.lst"},
     unsyncedfolders : {"", "unsynced.lst"}, restartTimes : 0..MaxRestartTimes]

\* the credential sources vary, the rest of the command line is fixed
CredentialInputs ==
    /\ options \in OptionSets
    /\ options.proxy = NullProxy
    /\ options.exclude = ""
    /\ options.unsyncedfolders = ""
    /\ options.restartTimes = 1
    /\ url \in [userName : {"", "urlUser"}, password : {"", "urlPass"}]
    /\ netrc \in NetrcStates
    /\ ~options.useNetrc => netrc = NetrcUnparsed
    /\ systemExcludeListFn = "sys.lst"
    /\ journal = NoJournal

\* the proxy option varies
ProxyInputs ==
    /\ options \in OptionSets
    /\ options.user = "optUser" /\ options.password = "optPass"
    /\ ~options.useNetrc /\ options.interactive
    /\ options.exclude = ""
    /\ options.unsyncedfolders = ""
    /\ options.restartTimes = 1
    /\ url = [userName |-> "", password |-> ""]
    /\ netrc = NetrcUnparsed
    /\ systemExcludeListFn = "sys.lst"
    /\ journal = NoJournal

\* the exclude-list sources and the retry budget vary
ExcludeInputs ==
    /\ options \in OptionSets
    /\ options.user = "optUser" /\ options.password = "optPass"
    /\ ~options.useNetrc /\ options.interactive
    /\ options.proxy = NullProxy
    /\ options.unsyncedfolders = ""
    /\ url = [userName |-> "", password |-> ""]
    /\ netrc = NetrcUnparsed
    /\ systemExcludeListFn \in {"", "sys.lst"}
    /\ journal = NoJournal

\* a selective sync list is given, the journal varies
SelectiveSyncInputs ==
    /\ options \in OptionSets
    /\ options.user = "optUser" /\ options.password = "optPass"
    /\ ~options.useNetrc /\ options.interactive
    /\ options.proxy = NullProxy
    /\ options.exclude = ""
    /\ options.unsyncedfolders # ""
    /\ options.restartTimes = 1
    /\ url = [userName |-> "", password |-> ""]
    /\ netrc = NetrcUnparsed
    /\ systemExcludeListFn = "sys.lst"
    /\ journal \in Journals

MainLocals ==
    /\ pc = "parseOptions"
    /\ exitCode = NoExit
    /\ user = "" /\ password = ""
    /\ typedUser = "" /\ typedPassword = ""
    /\ promptedUser = FALSE /\ promptedPassword = FALSE
    /\ stdinReads = 0
    /\ termBefore = NoTerminal /\ termDuringRead = NoTerminal
    /\ queryCalls = 0
    /\ unsyncedFileOpened = FALSE /\ unsyncedLines = <<>>
    /\ cred = NoCred
    /\ restartCount = 0
    /\ ctxAlive = FALSE /\ ctxExcludes = {}
    /\ useSystemConfiguration = FALSE
    /\ applicationProxy = NoProxy
    /\ ambientSetups = 0
    /\ loadedSystemExcludeList = 0 /\ loadedUserExcludeList = 0
    /\ selectiveSyncList = <<>>
    /\ invalidated = {}
    /\ fixupCalls = 0
    /\ fixupOld = NoJournal
    /\ fixupArgs = <<>>
    /\ journalOpens = 0
    /\ engine = "none"
    /\ anotherSyncNeeded = FALSE
    /\ engineSuccess = FALSE
    /\ allNeeded = TRUE
    /\ passes = 0
    /\ asks = 0

Init ==
    /\ MainLocals
    /\ terminal = ForegroundTerminal
    /\ (CredentialInputs \/ ProxyInputs \/ ExcludeInputs \/ SelectiveSyncInputs)

----------------------------------------------------------------------------
(* Start-up: parseOptions, Account::create *)

Exit(code) == pc' = "done" /\ exitCode' = code

\* lines 177-245: help() exits 0, a missing source directory exits 1
ParseOptions ==
    /\ pc = "parseOptions"
    /\ \E argCountOk \in BOOLEAN, sourceDirExists \in BOOLEAN, optionsKnown \in BOOLEAN :
          IF ~argCountOk THEN Exit(0)
          ELSE IF ~sourceDirExists THEN Exit(EXIT_FAILURE)
          ELSE IF ~optionsKnown THEN Exit(0)
          ELSE pc' = "createAccount" /\ exitCode' = exitCode
    /\ UNCHANGED <<options, terminal, termBefore, termDuringRead,
                   queryCalls, unsyncedFileOpened, unsyncedLines, url, systemExcludeListFn, netrc, user, password, typedUser,
                   typedPassword, promptedUser, promptedPassword, stdinReads, cred,
                   restartCount, ctxAlive, ctxExcludes, useSystemConfiguration,
                   applicationProxy, ambientSetups, loadedSystemExcludeList,
                   loadedUserExcludeList, selectiveSyncList, journal, invalidated,
                   fixupCalls, fixupOld, fixupArgs, journalOpens, engine, anotherSyncNeeded, engineSuccess,
                   allNeeded, passes, asks>>

\* lines 289-294
CreateAccount ==
    /\ pc = "createAccount"
    /\ \E created \in BOOLEAN :
          IF ~created THEN Exit(EXIT_FAILURE)
          ELSE pc' = "urlAndOptions" /\ exitCode' = exitCode
    /\ UNCHANGED <<options, terminal, termBefore, termDuringRead,
                   queryCalls, unsyncedFileOpened, unsyncedLines, url, systemExcludeListFn, netrc, user, password, typedUser,
                   typedPassword, promptedUser, promptedPassword, stdinReads, cred,
                   restartCount, ctxAlive, ctxExcludes, useSystemConfiguration,
                   applicationProxy, ambientSetups, loadedSystemExcludeList,
                   loadedUserExcludeList, selectiveSyncList, journal, invalidated,
                   fixupCalls, fixupOld, fixupArgs, journalOpens, engine, anotherSyncNeeded, engineSuccess,
                   allNeeded, passes, asks>>

----------------------------------------------------------------------------
(* Credentials, lines 315-351 *)

\* lines 321-330: a non-empty option replaces the value taken from the URL
FromUrlAndOptions(fromUrl, fromOption) ==
    IF fromOption # "" THEN fromOption ELSE fromUrl

\* NetrcParser::find(host): the entry of the host, an empty pair without one
NetrcFind(n) == IF n.found THEN <<n.login, n.password>> ELSE <<"", "">>

\* lines 332-339: the pair main() holds after the netrc stage
AfterNetrc(o, n, u, p) ==
    IF o.useNetrc /\ n.parses THEN NetrcFind(n) ELSE <<u, p>>

UrlAndOptions ==
    /\ pc = "urlAndOptions"
    /\ user' = FromUrlAndOptions(url.userName, options.user)
    /\ password' = FromUrlAndOptions(url.password, options.password)
    /\ pc' = "netrc"
    /\ UNCHANGED <<exitCode, options, terminal, termBefore, termDuringRead,
                   queryCalls, unsyncedFileOpened, unsyncedLines, url, systemExcludeListFn, netrc, typedUser,
                   typedPassword, promptedUser, promptedPassword, stdinReads, cred,
                   restartCount, ctxAlive, ctxExcludes, useSystemConfiguration,
                   applicationProxy, ambientSetups, loadedSystemExcludeList,
                   loadedUserExcludeList, selectiveSyncList, journal, invalidated,
                   fixupCalls, fixupOld, fixupArgs, journalOpens, engine, anotherSyncNeeded, engineSuccess,
                   allNeeded, passes, asks>>

NetrcLookup ==
    /\ pc = "netrc"
    /\ user' = AfterNetrc(options, netrc, user, password)[1]
    /\ password' = AfterNetrc(options, netrc, user, password)[2]
    /\ pc' = "promptUser"
    /\ UNCHANGED <<exitCode, options, terminal, termBefore, termDuringRead,
                   queryCalls, unsyncedFileOpened, unsyncedLines, url, systemExcludeListFn, netrc, typedUser,
                   typedPassword, promptedUser, promptedPassword, stdinReads, cred,
                   restartCount, ctxAlive, ctxExcludes, useSystemConfiguration,
                   applicationProxy, ambientSetups, loadedSystemExcludeList,
                   loadedUserExcludeList, selectiveSyncList, journal, invalidated,
                   fixupCalls, fixupOld, fixupArgs, journalOpens, engine, anotherSyncNeeded, engineSuccess,
                   allNeeded, passes, asks>>

\* line 80: the c_lflag tcgetattr stores; on failure the termios keeps
\* whatever the uninitialised member of line 100 holds
tcgetattr(t, uninitialised) == IF t.isTty THEN t.lflag ELSE uninitialised

\* lines 83, 92: the terminal after tcsetattr(STDIN_FILENO, TCSANOW, ...); the
\* return value is not looked at
tcsetattr(t, lflag) ==
    IF t.isTty /\ t.settable THEN [t EXCEPT !.lflag = lflag] ELSE t

\* lines 73-85: the terminal after the constructor and the saved member tios
EchoDisablerCtor(t, uninitialised) ==
    LET tios == tcgetattr(t, uninitialised)
        tios_new == tios \ {"ECHO"}
    IN [terminal |-> tcsetattr(t, tios_new), tios |-> tios]

\* lines 87-94 without the tcsetattr call
EchoDisablerDtor_NoRestore(t, tios) == t

\* lines 87-94
EchoDisablerDtor(t, tios) == tcsetattr(t, tios)

\* lines 104-111: the terminal while std::getline blocks and after the return,
\* which runs the destructor of the local EchoDisabler
queryPassword(t, uninitialised) ==
    LET disabler == EchoDisablerCtor(t, uninitialised)
    IN [during |-> disabler.terminal,
        after |-> EchoDisablerDtor(disabler.terminal, disabler.tios)]

\* lines 341-347: std::getline blocks until standard input delivers a line
PromptUser ==
    /\ pc = "promptUser"
    /\ IF options.interactive /\ user = ""
       THEN \E line \in StdinLines :
               /\ user' = line
               /\ typedUser' = line
               /\ promptedUser' = TRUE
               /\ stdinReads' = stdinReads + 1
       ELSE UNCHANGED <<user, typedUser, promptedUser, stdinReads>>
    /\ pc' = "promptPassword"
    /\ UNCHANGED <<exitCode, options, terminal, termBefore, termDuringRead,
                   queryCalls, unsyncedFileOpened, unsyncedLines, url, systemExcludeListFn, netrc, password,
                   typedPassword, promptedPassword, cred,
                   restartCount, ctxAlive, ctxExcludes, useSystemConfiguration,
                   applicationProxy, ambientSetups, loadedSystemExcludeList,
                   loadedUserExcludeList, selectiveSyncList, journal, invalidated,
                   fixupCalls, fixupOld, fixupArgs, journalOpens, engine, anotherSyncNeeded, engineSuccess,
                   allNeeded, passes, asks>>

\* lines 348-350 with queryPassword, lines 104-111
PromptPassword ==
    /\ pc = "promptPassword"
    /\ IF options.interactive /\ password = ""
       THEN \E line \in StdinLines, uninitialised \in SUBSET LFlags :
               LET q == queryPassword(terminal, uninitialised)
               IN /\ password' = line
                  /\ typedPassword' = line
                  /\ promptedPassword' = TRUE
                  /\ stdinReads' = stdinReads + 1
                  /\ termBefore' = terminal
                  /\ termDuringRead' = q.during
                  /\ terminal' = q.after
                  /\ queryCalls' = queryCalls + 1
       ELSE UNCHANGED <<password, typedPassword, promptedPassword, stdinReads,
                        terminal, termBefore, termDuringRead, queryCalls>>
    /\ pc' = "createCredentials"
    /\ UNCHANGED <<exitCode, options,
                   unsyncedFileOpened, unsyncedLines, url, systemExcludeListFn, netrc, user,
                   typedUser, promptedUser, cred,
                   restartCount, ctxAlive, ctxExcludes, useSystemConfiguration,
                   applicationProxy, ambientSetups, loadedSystemExcludeList,
                   loadedUserExcludeList, selectiveSyncList, journal, invalidated,
                   fixupCalls, fixupOld, fixupArgs, journalOpens, engine, anotherSyncNeeded, engineSuccess,
                   allNeeded, passes, asks>>

\* lines 353-385: the credentials object is built once, restartCount starts at 0
CreateCredentials ==
    /\ pc = "createCredentials"
    /\ cred' = [created |-> TRUE, user |-> user, password |-> password, ready |-> FALSE]
    /\ restartCount' = 0
    /\ pc' = "restart_sync"
    /\ UNCHANGED <<exitCode, options, terminal, termBefore, termDuringRead,
                   queryCalls, unsyncedFileOpened, unsyncedLines, url, systemExcludeListFn, netrc, user, password,
                   typedUser, typedPassword, promptedUser, promptedPassword, stdinReads,
                   ctxAlive, ctxExcludes, useSystemConfiguration,
                   applicationProxy, ambientSetups, loadedSystemExcludeList,
                   loadedUserExcludeList, selectiveSyncList, journal, invalidated,
                   fixupCalls, fixupOld, fixupArgs, journalOpens, engine, anotherSyncNeeded, engineSuccess,
                   allNeeded, passes, asks>>

----------------------------------------------------------------------------
(* One pass, lines 386-478 *)

\* QString::toInt of the port segment: 0 when it is not a number
ToInt(seg) == IF seg = <<"8080">> THEN 8080 ELSE 0

\* line 411: the host without a leading "//"
StripSlashes(seg) ==
    IF Len(seg) > 0 /\ seg[1] = "//" THEN Tail(seg) ELSE seg

\* lines 401-425: the proxy state after the proxy block.
\* st = [useSystemConfiguration, applicationProxy, ambientSetups]
SetupProxy(proxy, st) ==
    IF ~proxy.isNull
    THEN LET pList == Split(proxy.str, ":")
         IN IF Len(pList) = 3
            THEN [st EXCEPT !.useSystemConfiguration = FALSE,
                            !.applicationProxy =
                                [kind |-> "explicit",
                                 host |-> StripSlashes(pList[2]),
                                 port |-> ToInt(pList[3])]]
            ELSE st
    ELSE [st EXCEPT !.applicationProxy =
                        [kind |-> "fromConfig", host |-> <<>>, port |-> 0],
                    !.ambientSetups = @ + 1]

\* lines 386-425: csync_create, csync_init, proxy
SetupContext ==
    /\ pc = "restart_sync"
    /\ ctxAlive' = TRUE
    /\ ctxExcludes' = {}
    /\ LET st == SetupProxy(options.proxy,
                            [useSystemConfiguration |-> useSystemConfiguration,
                             applicationProxy |-> applicationProxy,
                             ambientSetups |-> ambientSetups])
       IN /\ useSystemConfiguration' = st.useSystemConfiguration
          /\ applicationProxy' = st.applicationProxy
          /\ ambientSetups' = st.ambientSetups
    /\ pc' = "excludeLists"
    /\ UNCHANGED <<exitCode, options, terminal, termBefore, termDuringRead,
                   queryCalls, unsyncedFileOpened, unsyncedLines, url, systemExcludeListFn, netrc, user, password,
                   typedUser, typedPassword, promptedUser, promptedPassword, stdinReads,
                   cred, restartCount, loadedSystemExcludeList,
                   loadedUserExcludeList, selectiveSyncList, journal, invalidated,
                   fixupCalls, fixupOld, fixupArgs, journalOpens, engine, anotherSyncNeeded, engineSuccess,
                   allNeeded, passes, asks>>

\* return codes of csync_add_exclude_list: 0 when the list was loaded
CsyncRcs == {0, -1}

\* lines 427-437: an unconfigured source leaves its variable at false (0)
LoadExcludeLists ==
    /\ pc = "excludeLists"
    /\ \E rcSystem \in CsyncRcs, rcUser \in CsyncRcs :
          /\ loadedSystemExcludeList' =
                 IF systemExcludeListFn # "" THEN rcSystem ELSE 0
          /\ loadedUserExcludeList' =
                 IF options.exclude # "" THEN rcUser ELSE 0
          /\ ctxExcludes' =
                 {l \in {"system"} : systemExcludeListFn # "" /\ rcSystem = 0}
                 \cup {l \in {"user"} : options.exclude # "" /\ rcUser = 0}
    /\ pc' = "unsyncedFolders"
    /\ UNCHANGED <<exitCode, options, terminal, termBefore, termDuringRead,
                   queryCalls, unsyncedFileOpened, unsyncedLines, url, systemExcludeListFn, netrc, user, password,
                   typedUser, typedPassword, promptedUser, promptedPassword, stdinReads,
                   cred, restartCount, ctxAlive, useSystemConfiguration,
                   applicationProxy, ambientSetups, selectiveSyncList, journal,
                   invalidated, fixupCalls, fixupOld, fixupArgs, journalOpens, engine, anotherSyncNeeded,
                   engineSuccess, allNeeded, passes, asks>>

\* lines 439-454: the list stays empty without the option or when the file cannot be opened
ReadUnsyncedFolders ==
    /\ pc = "unsyncedFolders"
    /\ IF options.unsyncedfolders # ""
       THEN \E opened \in BOOLEAN, lines \in Files :
               /\ unsyncedFileOpened' = opened
               /\ unsyncedLines' = IF opened THEN lines ELSE <<>>
               /\ selectiveSyncList' =
                      IF opened THEN ParseSelectiveSyncList(lines) ELSE <<>>
       ELSE /\ selectiveSyncList' = <<>>
            /\ UNCHANGED <<unsyncedFileOpened, unsyncedLines>>
    /\ pc' = "checkExcludeLists"
    /\ UNCHANGED <<exitCode, options, terminal, termBefore, termDuringRead,
                   queryCalls, url, systemExcludeListFn, netrc, user, password,
                   typedUser, typedPassword, promptedUser, promptedPassword, stdinReads,
                   cred, restartCount, ctxAlive, ctxExcludes, useSystemConfiguration,
                   applicationProxy, ambientSetups, loadedSystemExcludeList,
                   loadedUserExcludeList, journal, invalidated, fixupCalls, fixupOld, fixupArgs, journalOpens,
                   engine, anotherSyncNeeded, engineSuccess, allNeeded, passes, asks>>

\* line 457 with || in place of &&
ExcludeListsFatal_Either(loadedSystem, loadedUser) ==
    loadedSystem # 0 \/ loadedUser # 0

\* line 457
ExcludeListsFatal(loadedSystem, loadedUser) ==
    loadedSystem # 0 /\ loadedUser # 0

\* lines 457-461: qFatal logs the message, the process ends with EXIT_FAILURE
CheckExcludeLists ==
    /\ pc = "checkExcludeLists"
    /\ IF ExcludeListsFatal(loadedSystemExcludeList, loadedUserExcludeList)
       THEN Exit(EXIT_FAILURE)
       ELSE pc' = "journal" /\ exitCode' = exitCode
    /\ UNCHANGED <<options, terminal, termBefore, termDuringRead,
                   queryCalls, unsyncedFileOpened, unsyncedLines, url, systemExcludeListFn, netrc, user, password, typedUser,
                   typedPassword, promptedUser, promptedPassword, stdinReads, cred,
                   restartCount, ctxAlive, ctxExcludes, useSystemConfiguration,
                   applicationProxy, ambientSetups, loadedSystemExcludeList,
                   loadedUserExcludeList, selectiveSyncList, journal, invalidated,
                   fixupCalls, fixupOld, fixupArgs, journalOpens, engine, anotherSyncNeeded, engineSuccess,
                   allNeeded, passes, asks>>

ToSet(list) == Range(list)

\* the arguments of the latest two calls after a call with newList
LatestTwo(args, newList) ==
    IF args = <<>> THEN <<newList>> ELSE <<args[Len(args)], newList>>

\* lines 250-269 with only the newly listed paths in the change set
selectiveSyncFixup_OneSided(j, newList) ==
    IF ~j.exists THEN [journal |-> j, invalidated |-> {}]
    ELSE IF ~j.openable THEN [journal |-> j, invalidated |-> {}]
    ELSE [journal |-> [j EXCEPT !.blacklist = newList],
          invalidated |-> ToSet(newList) \ ToSet(j.blacklist)]

\* lines 250-269 without the setSelectiveSyncList call of line 268
selectiveSyncFixup_NoPersist(j, newList) ==
    IF ~j.exists THEN [journal |-> j, invalidated |-> {}]
    ELSE IF ~j.openable THEN [journal |-> j, invalidated |-> {}]
    ELSE [journal |-> j,
          invalidated |-> (ToSet(j.blacklist) \ ToSet(newList))
                              \cup (ToSet(newList) \ ToSet(j.blacklist))]

\* lines 250-269: the journal after the call and the paths given to
\* avoidReadFromDbOnNextSync during it
selectiveSyncFixup(j, newList) ==
    IF ~j.exists THEN [journal |-> j, invalidated |-> {}]
    ELSE IF ~j.openable THEN [journal |-> j, invalidated |-> {}]
    ELSE LET oldBlackListSet == ToSet(j.blacklist)
             blackListSet == ToSet(newList)
             changes == (oldBlackListSet \ blackListSet)
                            \cup (blackListSet \ oldBlackListSet)
         IN [journal |-> [j EXCEPT !.blacklist = newList], invalidated |-> changes]

\* lines 463-467 without the test of line 465
OpenJournalAndFixup_Always ==
    /\ pc = "journal"
    /\ journalOpens' = journalOpens + 1
    /\ LET r == selectiveSyncFixup(journal, selectiveSyncList)
       IN /\ journal' = r.journal
          /\ invalidated' = r.invalidated
          /\ fixupCalls' = fixupCalls + 1
          /\ fixupOld' = journal
          /\ fixupArgs' = LatestTwo(fixupArgs, selectiveSyncList)
    /\ pc' = "queueStartSync"
    /\ UNCHANGED <<exitCode, options, terminal, termBefore, termDuringRead,
                   queryCalls, unsyncedFileOpened, unsyncedLines, url, systemExcludeListFn, netrc, user, password,
                   typedUser, typedPassword, promptedUser, promptedPassword, stdinReads,
                   cred, restartCount, ctxAlive, ctxExcludes, useSystemConfiguration,
                   applicationProxy, ambientSetups, loadedSystemExcludeList,
                   loadedUserExcludeList, selectiveSyncList, engine, anotherSyncNeeded,
                   engineSuccess, allNeeded, passes, asks>>

\* lines 463-467: a SyncJournalDb is constructed, the fixup runs for a non-empty list
OpenJournalAndFixup ==
    /\ pc = "journal"
    /\ journalOpens' = journalOpens + 1
    /\ IF selectiveSyncList # <<>>
       THEN LET r == selectiveSyncFixup(journal, selectiveSyncList)
            IN /\ journal' = r.journal
               /\ invalidated' = r.invalidated
               /\ fixupCalls' = fixupCalls + 1
               /\ fixupOld' = journal
               /\ fixupArgs' = LatestTwo(fixupArgs, selectiveSyncList)
       ELSE /\ invalidated' = {}
            /\ UNCHANGED <<journal, fixupCalls, fixupOld, fixupArgs>>
    /\ pc' = "queueStartSync"
    /\ UNCHANGED <<exitCode, options, terminal, termBefore, termDuringRead,
                   queryCalls, unsyncedFileOpened, unsyncedLines, url, systemExcludeListFn, netrc, user, password,
                   typedUser, typedPassword, promptedUser, promptedPassword, stdinReads,
                   cred, restartCount, ctxAlive, ctxExcludes, useSystemConfiguration,
                   applicationProxy, ambientSetups, loadedSystemExcludeList,
                   loadedUserExcludeList, selectiveSyncList, engine, anotherSyncNeeded,
                   engineSuccess, allNeeded, passes, asks>>

\* lines 469-474 with a direct call of engine.startSync() in place of the queued one
QueueStartSync_Inline ==
    /\ pc = "queueStartSync"
    /\ engine' = "running"
    /\ passes' = passes + 1
    /\ asks' = 0
    /\ unsyncedLines' = <<>>
    /\ pc' = "exec"
    /\ UNCHANGED <<exitCode, options, terminal, termBefore, termDuringRead,
                   queryCalls, unsyncedFileOpened, url, systemExcludeListFn, netrc,
                   user, password, typedUser, typedPassword, promptedUser,
                   promptedPassword, stdinReads, cred, restartCount, ctxAlive,
                   ctxExcludes, useSystemConfiguration, applicationProxy,
                   ambientSetups, loadedSystemExcludeList, loadedUserExcludeList,
                   selectiveSyncList, journal, invalidated, fixupCalls, fixupOld,
                   fixupArgs, journalOpens, anotherSyncNeeded, engineSuccess,
                   allNeeded>>

\* lines 469-474: the engine is constructed and its startSync is queued; the
\* text read from the unsynced-folders file is gone by now
QueueStartSync ==
    /\ pc = "queueStartSync"
    /\ engine' = "queued"
    /\ asks' = 0
    /\ unsyncedLines' = <<>>
    /\ pc' = "exec"
    /\ UNCHANGED <<exitCode, options, terminal, termBefore, termDuringRead,
                   queryCalls, unsyncedFileOpened, url, systemExcludeListFn, netrc, user, password,
                   typedUser, typedPassword, promptedUser, promptedPassword, stdinReads,
                   cred, restartCount, ctxAlive, ctxExcludes, useSystemConfiguration,
                   applicationProxy, ambientSetups, loadedSystemExcludeList,
                   loadedUserExcludeList, selectiveSyncList, journal, invalidated,
                   fixupCalls, fixupOld, fixupArgs, journalOpens, anotherSyncNeeded, engineSuccess,
                   allNeeded, passes>>

\* line 476: main enters the event loop
AppExec ==
    /\ pc = "exec"
    /\ pc' = "eventLoop"
    /\ UNCHANGED <<exitCode, options, terminal, termBefore, termDuringRead,
                   queryCalls, unsyncedFileOpened, unsyncedLines, url, systemExcludeListFn, netrc, user, password,
                   typedUser, typedPassword, promptedUser, promptedPassword, stdinReads,
                   cred, restartCount, ctxAlive, ctxExcludes, useSystemConfiguration,
                   applicationProxy, ambientSetups, loadedSystemExcludeList,
                   loadedUserExcludeList, selectiveSyncList, journal, invalidated,
                   fixupCalls, fixupOld, fixupArgs, journalOpens, engine, anotherSyncNeeded, engineSuccess,
                   allNeeded, passes, asks>>

\* line 474: the event loop delivers the queued startSync
EngineStartSync ==
    /\ pc = "eventLoop"
    /\ engine = "queued"
    /\ engine' = "running"
    /\ passes' = passes + 1
    /\ UNCHANGED <<pc, exitCode, options, terminal, termBefore, termDuringRead,
                   queryCalls, unsyncedFileOpened, unsyncedLines, url, systemExcludeListFn, netrc, user,
                   password, typedUser, typedPassword, promptedUser, promptedPassword,
                   stdinReads, cred, restartCount, ctxAlive, ctxExcludes,
                   useSystemConfiguration, applicationProxy, ambientSetups,
                   loadedSystemExcludeList, loadedUserExcludeList, selectiveSyncList,
                   journal, invalidated, fixupCalls, fixupOld, fixupArgs, journalOpens, anotherSyncNeeded,
                   engineSuccess, allNeeded, asks>>

\* lines 120-125 with queryPassword, lines 104-111: the running engine asks the
\* credentials object for a password, which reads a line from standard input
AskFromUser ==
    /\ pc = "eventLoop"
    /\ engine = "running"
    /\ asks < MaxAsks
    /\ \E line \in StdinLines, uninitialised \in SUBSET LFlags :
          LET q == queryPassword(terminal, uninitialised)
          IN /\ cred' = [cred EXCEPT !.password = line, !.ready = TRUE]
             /\ termBefore' = terminal
             /\ termDuringRead' = q.during
             /\ terminal' = q.after
    /\ queryCalls' = queryCalls + 1
    /\ stdinReads' = stdinReads + 1
    /\ asks' = asks + 1
    /\ UNCHANGED <<pc, exitCode, options,
                   unsyncedFileOpened, unsyncedLines, url, systemExcludeListFn, netrc, user,
                   password, typedUser, typedPassword, promptedUser, promptedPassword,
                   restartCount, ctxAlive, ctxExcludes,
                   useSystemConfiguration, applicationProxy, ambientSetups,
                   loadedSystemExcludeList, loadedUserExcludeList, selectiveSyncList,
                   journal, invalidated, fixupCalls, fixupOld, fixupArgs, journalOpens, engine,
                   anotherSyncNeeded, engineSuccess, allNeeded, passes>>

\* line 470: the engine emits finished(bool), connected to app.quit();
\* a pass creates the journal file when there was none
EngineFinished ==
    /\ pc = "eventLoop"
    /\ engine = "running"
    /\ \E success \in BOOLEAN, another \in BOOLEAN, created \in BOOLEAN :
          /\ engineSuccess' = success
          /\ anotherSyncNeeded' = another
          /\ allNeeded' = (allNeeded /\ another)
          /\ journal' = [journal EXCEPT !.exists = @ \/ created]
    /\ engine' = "finished"
    /\ UNCHANGED <<pc, exitCode, options, terminal, termBefore, termDuringRead,
                   queryCalls, unsyncedFileOpened, unsyncedLines, url, systemExcludeListFn, netrc, user,
                   password, typedUser, typedPassword, promptedUser, promptedPassword,
                   stdinReads, cred, restartCount, ctxAlive, ctxExcludes,
                   useSystemConfiguration, applicationProxy, ambientSetups,
                   loadedSystemExcludeList, loadedUserExcludeList, selectiveSyncList,
                   invalidated, fixupCalls, fixupOld, fixupArgs, journalOpens, passes, asks>>

\* lines 476-478: app.exec() returns after quit(), csync_destroy
DestroyContext ==
    /\ pc = "eventLoop"
    /\ engine = "finished"
    /\ ctxAlive' = FALSE
    /\ ctxExcludes' = {}
    /\ pc' = "decide"
    /\ UNCHANGED <<exitCode, options, terminal, termBefore, termDuringRead,
                   queryCalls, unsyncedFileOpened, unsyncedLines, url, systemExcludeListFn, netrc, user, password,
                   typedUser, typedPassword, promptedUser, promptedPassword, stdinReads,
                   cred, restartCount, useSystemConfiguration,
                   applicationProxy, ambientSetups, loadedSystemExcludeList,
                   loadedUserExcludeList, selectiveSyncList, journal, invalidated,
                   fixupCalls, fixupOld, fixupArgs, journalOpens, engine, anotherSyncNeeded, engineSuccess,
                   allNeeded, passes, asks>>

\* lines 480-481 with <= in place of <
ShouldRestart_OffByOne(another, count, restartTimes) ==
    another /\ count <= restartTimes

\* lines 480-481
ShouldRestart(another, count, restartTimes) ==
    another /\ count < restartTimes

\* lines 480-489: the goto leaves the scope of the pass, which destroys the
\* engine, the journal object and the lists read during the pass
DecideRestart ==
    /\ pc = "decide"
    /\ IF ShouldRestart(anotherSyncNeeded, restartCount, options.restartTimes)
       THEN /\ restartCount' = restartCount + 1
            /\ pc' = "restart_sync"
            /\ engine' = "none"
            /\ asks' = 0
            /\ engineSuccess' = FALSE
            /\ anotherSyncNeeded' = FALSE
            /\ selectiveSyncList' = <<>>
            /\ unsyncedFileOpened' = FALSE
            /\ unsyncedLines' = <<>>
            /\ invalidated' = {}
            /\ loadedSystemExcludeList' = 0
            /\ loadedUserExcludeList' = 0
            /\ exitCode' = exitCode
       ELSE /\ Exit(0)
            /\ UNCHANGED <<restartCount, engine, asks, engineSuccess, anotherSyncNeeded,
                           selectiveSyncList, unsyncedFileOpened, unsyncedLines,
                           invalidated, loadedSystemExcludeList,
                           loadedUserExcludeList>>
    /\ UNCHANGED <<options, terminal, termBefore, termDuringRead,
                   queryCalls, url, systemExcludeListFn, netrc, user, password,
                   typedUser, typedPassword, promptedUser, promptedPassword, stdinReads,
                   cred, ctxAlive, ctxExcludes, useSystemConfiguration,
                   applicationProxy, ambientSetups, journal,
                   fixupCalls, fixupOld, fixupArgs, journalOpens, allNeeded, passes>>

Next ==
    \/ ParseOptions \/ CreateAccount
    \/ UrlAndOptions \/ NetrcLookup \/ PromptUser \/ PromptPassword \/ CreateCredentials
    \/ SetupContext \/ LoadExcludeLists \/ ReadUnsyncedFolders \/ CheckExcludeLists
    \/ OpenJournalAndFixup \/ QueueStartSync \/ AppExec
    \/ EngineStartSync \/ AskFromUser \/ EngineFinished
    \/ DestroyContext \/ DecideRestart

Spec == Init /\ [][Next]_vars

----------------------------------------------------------------------------
(* selectiveSyncFixup on its own: consecutive calls on one journal *)

\* longest list given to selectiveSyncFixup
MaxListLen == 2

Lists == SeqsUpTo(Paths, MaxListLen)

InitFixup ==
    /\ MainLocals
    /\ terminal = ForegroundTerminal
    /\ options = [user |-> "", password |-> "", useNetrc |-> FALSE,
                  interactive |-> FALSE, proxy |-> NullProxy, exclude |-> "",
                  unsyncedfolders |-> "unsynced.lst", restartTimes |-> 0]
    /\ url = [userName |-> "", password |-> ""]
    /\ netrc = NetrcUnparsed
    /\ systemExcludeListFn = ""
    /\ journal \in [exists : BOOLEAN, openable : BOOLEAN, blacklist : Lists]

\* lines 250-269, called with any list
FixupCall ==
    /\ fixupCalls < MaxFixupCalls
    /\ \E newList \in Lists :
          LET r == selectiveSyncFixup(journal, newList)
          IN /\ journal' = r.journal
             /\ invalidated' = r.invalidated
             /\ fixupArgs' = LatestTwo(fixupArgs, newList)
    /\ fixupOld' = journal
    /\ fixupCalls' = fixupCalls + 1
    /\ UNCHANGED <<pc, exitCode, options, terminal, termBefore, termDuringRead,
                   queryCalls, unsyncedFileOpened, unsyncedLines, url, systemExcludeListFn, netrc, user,
                   password, typedUser, typedPassword, promptedUser, promptedPassword,
                   stdinReads, cred, restartCount, ctxAlive, ctxExcludes,
                   useSystemConfiguration, applicationProxy, ambientSetups,
                   loadedSystemExcludeList, loadedUserExcludeList, selectiveSyncList,
                   journalOpens, engine, anotherSyncNeeded, engineSuccess, allNeeded,
                   passes, asks>>

NextFixup == FixupCall

SpecFixup == InitFixup /\ [][NextFixup]_vars

----------------------------------------------------------------------------
(* queryPassword on its own: calls on any kind of standard input *)

\* most queryPassword calls of the password specification
MaxQueryCalls == 2

InitPassword ==
    /\ MainLocals
    /\ terminal \in Terminals
    /\ options = [user |-> "optUser", password |-> "", useNetrc |-> FALSE,
                  interactive |-> TRUE, proxy |-> NullProxy, exclude |-> "",
                  unsyncedfolders |-> "", restartTimes |-> 0]
    /\ url = [userName |-> "", password |-> ""]
    /\ netrc = NetrcUnparsed
    /\ systemExcludeListFn = ""
    /\ journal = NoJournal

\* lines 104-111, called on the terminal as the previous call left it
QueryPasswordCall ==
    /\ queryCalls < MaxQueryCalls
    /\ \E line \in StdinLines, uninitialised \in SUBSET LFlags :
          LET q == queryPassword(terminal, uninitialised)
          IN /\ typedPassword' = line
             /\ termBefore' = terminal
             /\ termDuringRead' = q.during
             /\ terminal' = q.after
    /\ stdinReads' = stdinReads + 1
    /\ queryCalls' = queryCalls + 1
    /\ UNCHANGED <<pc, exitCode, options, url, systemExcludeListFn, netrc, user,
                   password, typedUser, promptedUser, promptedPassword,
                   unsyncedFileOpened, unsyncedLines, cred, restartCount, ctxAlive,
                   ctxExcludes, useSystemConfiguration, applicationProxy,
                   ambientSetups, loadedSystemExcludeList, loadedUserExcludeList,
                   selectiveSyncList, journal, invalidated, fixupCalls, fixupOld,
                   fixupArgs, journalOpens, engine, anotherSyncNeeded, engineSuccess,
                   allNeeded, passes, asks>>

NextPassword == QueryPasswordCall

SpecPassword == InitPassword /\ [][NextPassword]_vars

\* every step of main() and of the engine is eventually taken: the process runs on
\* one thread, std::getline returns, and a started pass signals completion
FairSpec == Spec /\ WF_vars(Next)

----------------------------------------------------------------------------
(* Properties *)

BothConfigured == systemExcludeListFn # "" /\ options.exclude # ""

OneConfigured == (systemExcludeListFn # "") # (options.exclude # "")

\* the exclude lists of the current pass have been loaded and checked
PastExcludeCheck ==
    pc \in {"journal", "queueStartSync", "exec", "eventLoop", "decide", "done"}

\* C1: with an engine that reports another sync needed after every pass, a run
\* that started the engine ends after exactly restartTimes + 1 passes with exit
\* code 0.
C1_RetryBound ==
    (pc = "done" /\ passes >= 1 /\ allNeeded)
        => (passes = options.restartTimes + 1 /\ exitCode = 0)

\* C2: when every step that can be taken eventually is, the process terminates,
\* and it never starts more than restartTimes + 1 engine passes.
C2_TerminatesWithinBudget ==
    /\ <>(pc = "done")
    /\ [](passes <= options.restartTimes + 1)

C2_Witness ==
    /\ pc = "done" /\ exitCode = 0
    /\ options.restartTimes >= 1
    /\ passes = options.restartTimes + 1

\* what the stated precedence gives before the prompts: options over URL, the
\* netrc pair over both when netrc is enabled and holds the host
ClaimedBeforePrompt ==
    IF options.useNetrc /\ netrc.parses /\ netrc.found
    THEN <<netrc.login, netrc.password>>
    ELSE <<IF options.user # "" THEN options.user ELSE url.userName,
           IF options.password # "" THEN options.password ELSE url.password>>

\* C3: the resolved user and password follow the precedence URL < options <
\* netrc pair (enabled and host found) < prompt, and a field is prompted for
\* only when it is still empty in interactive mode.
C3_CredentialPrecedence ==
    cred.created =>
        /\ promptedUser = (options.interactive /\ ClaimedBeforePrompt[1] = "")
        /\ promptedPassword = (options.interactive /\ ClaimedBeforePrompt[2] = "")
        /\ user = IF promptedUser THEN typedUser ELSE ClaimedBeforePrompt[1]
        /\ password = IF promptedPassword THEN typedPassword ELSE ClaimedBeforePrompt[2]

SymmetricDifference(A, B) == (A \ B) \cup (B \ A)

LatestArg == fixupArgs[Len(fixupArgs)]

\* C4 as stated: on a journal with a persisted blacklist, a call invalidates
\* exactly the symmetric difference of the old and the new set and leaves the
\* new set persisted.
C4_AsStated ==
    (fixupCalls >= 1 /\ fixupOld.exists) =>
        /\ invalidated = SymmetricDifference(ToSet(fixupOld.blacklist), ToSet(LatestArg))
        /\ ToSet(journal.blacklist) = ToSet(LatestArg)

\* C4 amended: the same, provided the journal's database file can be opened;
\* when it cannot, the call invalidates nothing and leaves the blacklist as it was.
C4_FixupSymmetricDifference ==
    (fixupCalls >= 1 /\ fixupOld.exists) =>
        IF fixupOld.openable
        THEN /\ invalidated =
                    SymmetricDifference(ToSet(fixupOld.blacklist), ToSet(LatestArg))
             /\ ToSet(journal.blacklist) = ToSet(LatestArg)
        ELSE /\ invalidated = {}
             /\ journal = fixupOld

C4_Witness ==
    /\ fixupCalls >= 1
    /\ fixupOld = [exists |-> TRUE, openable |-> TRUE, blacklist |-> <<PathA, PathB>>]
    /\ LatestArg = <<PathB, PathC>>
    /\ invalidated = {PathA, PathC}
    /\ journal.blacklist = <<PathB, PathC>>

\* C5: a call that directly follows a call with the same list invalidates
\* nothing and leaves the persisted blacklist as the first call left it.
C5_FixupIdempotent ==
    (Len(fixupArgs) = 2 /\ fixupArgs[1] = fixupArgs[2]) =>
        /\ invalidated = {}
        /\ journal.blacklist = fixupOld.blacklist

C5_Witness ==
    /\ fixupCalls = 2
    /\ fixupArgs = <<(<<PathB, PathC>>), (<<PathB, PathC>>)>>
    /\ fixupOld = [exists |-> TRUE, openable |-> TRUE, blacklist |-> <<PathB, PathC>>]
    /\ journal.blacklist = <<PathB, PathC>>
    /\ invalidated = {}

\* C6: when exactly one exclude-list source is configured and its load fails,
\* the process exits with code 1 and the engine is never started.
C6_SingleSourceFailureFatal ==
    LET failed == IF systemExcludeListFn # ""
                  THEN loadedSystemExcludeList # 0
                  ELSE loadedUserExcludeList # 0
    IN (OneConfigured /\ failed /\ PastExcludeCheck)
           => (pc = "done" /\ exitCode = EXIT_FAILURE /\ passes = 0)

MalformedProxy ==
    /\ ~options.proxy.isNull
    /\ options.proxy.str # <<>>
    /\ Len(Split(options.proxy.str, ":")) # 3

\* C8: with a malformed proxy override every pass performs the ambient proxy
\* setup and installs no explicit proxy, as without an override.
C8_MalformedProxyFallsThrough ==
    (MalformedProxy /\ ctxAlive) =>
        /\ ambientSetups = restartCount + 1
        /\ applicationProxy.kind = "fromConfig"

\* C9: the process exits with code 1 only when no engine pass was started.
C9_FatalOnlyBeforeEngine ==
    exitCode = EXIT_FAILURE => passes = 0

\* C10: in non-interactive mode nothing ever reads a line from standard input.
C10_NonInteractiveNeverReadsStdin ==
    ~options.interactive => stdinReads = 0

\* C11: after every queryPassword call the terminal is as it was when the call
\* was entered. On a terminal whose attributes can be read and set, the line was
\* read with ECHO cleared and every other flag as before; on standard input whose
\* attributes cannot be read or cannot be set, the line was read with the
\* terminal as it was.
C11_TerminalModeRestored ==
    queryCalls >= 1 =>
        /\ terminal = termBefore
        /\ termDuringRead =
               IF termBefore.isTty /\ termBefore.settable
               THEN [termBefore EXCEPT !.lflag = @ \ {"ECHO"}]
               ELSE termBefore

C11_Witness ==
    /\ queryCalls >= 1
    /\ termBefore = [isTty |-> TRUE, settable |-> TRUE, lflag |-> {"ECHO", "ICANON"}]
    /\ termDuringRead.lflag = {"ICANON"}
    /\ terminal = termBefore

\* C12: when the first pass's engine starts after a fixup call that found no
\* journal, the call has invalidated nothing and the journal holds the supplied
\* list as its blacklist.
C12_FirstRunPersists ==
    (pc = "eventLoop" /\ engine = "running" /\ passes = 1
        /\ fixupCalls = 1 /\ ~fixupOld.exists)
        => /\ invalidated = {}
           /\ ToSet(journal.blacklist) = ToSet(LatestArg)

\* C13: selectiveSyncFixup is called at most once in a run, and a restarted pass
\* invalidates nothing.
C13_ReconcileOnce ==
    /\ fixupCalls <= 1
    /\ restartCount >= 1 => invalidated = {}

\* C14: one SyncJournalDb object is constructed in a run, and every started
\* engine pass uses it.
C14_JournalOpenedOnce ==
    /\ journalOpens <= 1
    /\ passes >= 1 => journalOpens = 1

\* C15: when the netrc file parses and has no entry for the host, the netrc
\* stage leaves the user and the password of the URL and the options in place.
C15_NetrcMissKeepsValues ==
    (pc = "promptUser" /\ options.useNetrc /\ netrc.parses /\ ~netrc.found)
        => /\ user = FromUrlAndOptions(url.userName, options.user)
           /\ password = FromUrlAndOptions(url.password, options.password)

\* C16: in every pass the engine's start is queued before main enters the event
\* loop, the start runs only from the event loop and only once queued, the
\* engine finishes inside the loop, and the context is destroyed only after
\* that; a context is created only when none exists and no engine of an earlier
\* pass is left, so a running engine is always the one of the current pass.
C16_PassOrder ==
    /\ [](engine = "queued" => (pc \in {"exec", "eventLoop"} /\ ctxAlive))
    /\ [](engine = "running" =>
              (pc = "eventLoop" /\ ctxAlive /\ passes = restartCount + 1))
    /\ [](pc = "decide" => (engine = "finished" /\ ~ctxAlive))
    /\ [][(engine # "running" /\ engine' = "running")
              => (engine = "queued" /\ pc = "eventLoop")]_vars
    /\ [][(engine # "finished" /\ engine' = "finished")
              => (engine = "running" /\ pc = "eventLoop")]_vars
    /\ [][(ctxAlive /\ ~ctxAlive')
              => (engine = "finished" /\ pc = "eventLoop" /\ pc' = "decide")]_vars
    /\ [][(~ctxAlive /\ ctxAlive') => (engine = "none" /\ pc = "restart_sync")]_vars
    /\ [][passes' # passes => (passes' = passes + 1 /\ engine' = "running")]_vars

C16_Witness ==
    /\ pc = "eventLoop" /\ engine = "running" /\ ctxAlive
    /\ restartCount = 1 /\ passes = 2

\* C17: restartCount stays within 0..restartTimes, and a run that started the
\* engine has, when it ends, started one pass more than it took restarts (every
\* restart led to a further pass) and ends only when the last pass did not
\* report another sync needed or the restarts are used up.
C17_RestartRule ==
    /\ restartCount \in 0..options.restartTimes
    /\ (pc = "done" /\ passes >= 1) =>
           /\ passes = restartCount + 1
           /\ ~(anotherSyncNeeded /\ restartCount < options.restartTimes)

\* the current pass is past line 454 and has read no list: the option is absent
\* or the file could not be opened
NoListRead ==
    /\ pc \in {"checkExcludeLists", "journal", "queueStartSync", "exec",
                "eventLoop", "decide"}
    /\ options.unsyncedfolders = "" \/ ~unsyncedFileOpened

\* C18: a pass that read no list does not call selectiveSyncFixup: its journal
\* step invalidates nothing and goes on to the engine's construction, no step of
\* the pass changes the persisted blacklist, and the reading step itself never
\* ends the run; without the option no call is made in the whole run.
C18_NoListNoFixup ==
    /\ [][pc = "unsyncedFolders"
              => (pc' = "checkExcludeLists" /\ exitCode' = NoExit)]_vars
    /\ [][(pc = "journal" /\ NoListRead)
              => /\ fixupCalls' = fixupCalls
                 /\ invalidated' = {}
                 /\ journal' = journal
                 /\ pc' = "queueStartSync" /\ exitCode' = NoExit]_vars
    /\ [][NoListRead => journal'.blacklist = journal.blacklist]_vars
    /\ [](options.unsyncedfolders = "" => (fixupCalls = 0 /\ invalidated = {}))

C18_Witness ==
    /\ pc = "eventLoop" /\ engine = "running"
    /\ options.unsyncedfolders # "" /\ ~unsyncedFileOpened
    /\ journal = [exists |-> TRUE, openable |-> TRUE, blacklist |-> <<PathB, PathA>>]
    /\ fixupCalls = 0 /\ invalidated = {}

\* C19: whenever the engine runs, the context of the pass holds a loaded
\* exclude list.
C19_ExcludeListLoaded ==
    (pc = "eventLoop" /\ engine = "running") => ctxExcludes # {}

IsBlank(line) == \A i \in 1..Len(line) : line[i] \in WhiteSpace

IsComment(line) == Len(line) > 0 /\ line[1] = "#"

\* a file that is empty or holds only blank lines and '#' comment lines
NoEffectiveEntry(lines) ==
    \A i \in 1..Len(lines) : IsBlank(lines[i]) \/ IsComment(lines[i])

\* C20: a pass that opened the list file and found no effective entry in it has
\* an empty list, and its journal step calls no fixup, invalidates nothing and
\* leaves the journal, with its persisted blacklist, as it was.
C20_EmptyListChangesNothing ==
    /\ []((pc \in {"checkExcludeLists", "journal", "queueStartSync"}
               /\ unsyncedFileOpened /\ NoEffectiveEntry(unsyncedLines))
              => selectiveSyncList = <<>>)
    /\ [][(pc = "journal" /\ unsyncedFileOpened /\ NoEffectiveEntry(unsyncedLines))
              => /\ fixupCalls' = fixupCalls
                 /\ invalidated' = {}
                 /\ journal' = journal]_vars

C20_Witness ==
    /\ pc = "queueStartSync"
    /\ unsyncedFileOpened
    /\ unsyncedLines = <<(<<"#", "/", "a">>), (<<" ">>)>>
    /\ journal = [exists |-> TRUE, openable |-> TRUE, blacklist |-> <<PathB, PathA>>]
    /\ fixupCalls = 0 /\ invalidated = {}

====
